---- MODULE Spec2Model ----
(***************************************************************************)
(* Model of the trading journal (src/journal_core.py): the PnL calculator  *)
(* calculate_pnl and the aggregators compute_yearly_summary and            *)
(* compute_portfolio_summary.                                              *)
(*                                                                         *)
(* Representation.  A pandas cell that may be missing (None / NaN / NaT)   *)
(* is Null or Some(v).  Prices and pnl are integers counted in price ticks *)
(* (the floats of the code without their rounding).  An entry_date is      *)
(* represented by its year, the only part the aggregators read; Null is a  *)
(* date that pd.to_datetime(errors="coerce") turns into NaT.  A DataFrame  *)
(* is the sequence of its rows.  A win rate is the exact fraction          *)
(* [num, den] of the division the code performs.                           *)
(*                                                                         *)
(* SpecPnl applies calculate_pnl to every row of PnlRows; SpecAgg applies  *)
(* the two aggregators to every leg collection of at most MaxLegs rows of  *)
(* AggLegs.  SpecJournal runs the handlers of the category pages (add-leg, *)
(* select-for-edit, save-and-close) for two sessions on one data file of   *)
(* at most MaxJournalLegs legs; SpecJournalLegacy adds the add form of the *)
(* single-page app; SpecRace splits each handler at its price lookup,      *)
(* between load_data and save_data.                                        *)
(***************************************************************************)
EXTENDS Integers, Sequences, FiniteSets, TLC

VARIABLES row, pnl_call, df, yearly_call, portfolio_call, file, editing, pending

vars == <<row, pnl_call, df, yearly_call, portfolio_call, file, editing, pending>>

core_vars == <<row, pnl_call, df, yearly_call, portfolio_call>>
journal_vars == <<file, editing, pending>>

Null == <<>>
Some(v) == <<v>>
IsNull(x) == x = Null
Val(x) == x[1]

\* The UI sessions (browser tabs) that share the data file.
Sessions == {1, 2}

\* st.session_state of a session that is editing no leg
NoEditing == [editing_leg_id |-> Null, editing_category |-> Null, editing_year |-> Null]

\* No data file, no leg being edited, no handler between its load and its save.
JournalIdle ==
    /\ file = <<>>
    /\ editing = [s \in Sessions |-> NoEditing]
    /\ pending = [s \in Sessions |-> Null]

(***************************************************************************)
(* calculate_pnl                                                           *)
(***************************************************************************)

direction_mult_always_long(r) == 1

direction_mult(r) == IF r.direction = Some("Long") THEN 1 ELSE -1

OptionPnlPerShare(r) ==
    Some((Val(r.option_exit_price) - Val(r.option_entry_price))
         * r.contracts_or_shares * direction_mult(r))

OptionPnl(r) ==
    Some((Val(r.option_exit_price) - Val(r.option_entry_price))
         * r.contracts_or_shares * 100 * direction_mult(r))

MissingPricePnlZero(r) == Some(0)

MissingPricePnl(r) == Null

StockPnl(r) ==
    Some((Val(r.exit_underlying_px) - Val(r.entry_underlying_px))
         * r.contracts_or_shares * direction_mult(r))

calculate_pnl(r) ==
    IF IsNull(r.direction) THEN Null
    ELSE IF r.asset_type = Some("Stock")
         THEN IF ~IsNull(r.entry_underlying_px) /\ ~IsNull(r.exit_underlying_px)
              THEN StockPnl(r)
              ELSE MissingPricePnl(r)
    ELSE IF r.asset_type = Some("Option")
         THEN IF ~IsNull(r.option_entry_price) /\ ~IsNull(r.option_exit_price)
              THEN OptionPnl(r)
              ELSE MissingPricePnl(r)
    ELSE Null

(***************************************************************************)
(* Inputs of the calculator: every row over small sets of field values.    *)
(***************************************************************************)
Directions == {"Long", "Short"}
AssetTypes == {"Stock", "Option", "Future"}
QtyValues == {1, 5, 10}

Opt(S) == {Null} \cup {Some(v) : v \in S}

PnlRows ==
    [direction : Opt(Directions),
     asset_type : Opt(AssetTypes),
     contracts_or_shares : QtyValues,
     entry_underlying_px : Opt({10000}),
     exit_underlying_px : Opt({10000, 11000}),
     option_entry_price : Opt({200}),
     option_exit_price : Opt({200, 350})]

NotCalled == [done |-> FALSE]
Returned(v) == [done |-> TRUE, ret |-> v]

InitPnl ==
    /\ row \in PnlRows
    /\ pnl_call = NotCalled
    /\ df = <<>>
    /\ yearly_call = NotCalled
    /\ portfolio_call = NotCalled
    /\ JournalIdle

CalculatePnl ==
    /\ pnl_call = NotCalled
    /\ pnl_call' = Returned(calculate_pnl(row))
    /\ UNCHANGED <<row, df, yearly_call, portfolio_call, journal_vars>>

NextPnl == CalculatePnl

SpecPnl == InitPnl /\ [][NextPnl]_vars

(***************************************************************************)
(* The aggregators.  Helpers shared by compute_yearly_summary and          *)
(* compute_portfolio_summary.                                              *)
(***************************************************************************)

\* df[(df["is_open"] == False) & (~df["pnl"].isna())]
IsClosedWithPnlIgnoringOpen(r) == ~IsNull(r.pnl)

IsClosedWithPnl(r) == r.is_open = FALSE /\ ~IsNull(r.pnl)

\* pd.to_datetime(errors="coerce") followed by ~isna()
HasEntryDate(r) == ~IsNull(r.entry_date)

\* df_closed["entry_date"].dt.year
entry_year(r) == Val(r.entry_date)

\* .agg(group_pnl=("pnl", "sum")) over the rows of one group
RECURSIVE PnlSum(_)
PnlSum(s) == IF s = <<>> THEN 0 ELSE Val(Head(s).pnl) + PnlSum(Tail(s))

\* group_summary["group_pnl"].sum() over a set of group rows (distinct keys)
RECURSIVE GroupPnlSum(_)
GroupPnlSum(G) ==
    IF G = {} THEN 0
    ELSE LET g == CHOOSE x \in G : TRUE IN g.group_pnl + GroupPnlSum(G \ {g})

\* (group_summary["group_pnl"] > 0).sum()
WinningIncludingZero(G) == Cardinality({g \in G : g.group_pnl >= 0})

Winning(G) == Cardinality({g \in G : g.group_pnl > 0})

RECURSIVE Gcd(_, _)
Gcd(a, b) == IF b = 0 THEN a ELSE Gcd(b, a % b)

\* winning_groups / trade_groups if trade_groups else 0.0, as the exact
\* fraction in lowest terms
WinRateInverted(w, t) ==
    IF w # 0 THEN [num |-> t \div Gcd(t, w), den |-> w \div Gcd(t, w)]
    ELSE [num |-> 0, den |-> 1]

WinRate(w, t) ==
    IF t # 0 THEN [num |-> w \div Gcd(w, t), den |-> t \div Gcd(w, t)]
    ELSE [num |-> 0, den |-> 1]

\* (legs["direction"] == "Long").sum()
CountDirection(legs, d) == Len(SelectSeq(legs, LAMBDA r : r.direction = Some(d)))

\* the keys of a groupby over entry_year, in iteration order (ascending)
RECURSIVE Ascending(_)
Ascending(S) ==
    IF S = {} THEN <<>>
    ELSE LET m == CHOOSE x \in S : \A y \in S : x <= y
         IN <<m>> \o Ascending(S \ {m})

\* DataFrame.sort_values("Year"): stable insertion sort on Year
RECURSIVE SortByYear(_)
InsertByYear(rw, sorted) ==
    LET before == SelectSeq(sorted, LAMBDA x : x.Year <= rw.Year)
        after == SelectSeq(sorted, LAMBDA x : x.Year > rw.Year)
    IN before \o <<rw>> \o after
SortByYear(rows) ==
    IF rows = <<>> THEN <<>>
    ELSE InsertByYear(rows[Len(rows)], SortByYear(SubSeq(rows, 1, Len(rows) - 1)))

\* the overall dict, built the same way by both functions
Overall(group_summary, df_closed) ==
    [TotalPnL |-> GroupPnlSum(group_summary),
     TradeGroups |-> Cardinality(group_summary),
     WinningGroups |-> Winning(group_summary),
     WinRate |-> WinRate(Winning(group_summary), Cardinality(group_summary)),
     TotalLegs |-> Len(df_closed),
     LongLegs |-> CountDirection(df_closed, "Long"),
     ShortLegs |-> CountDirection(df_closed, "Short")]

(***************************************************************************)
(* compute_yearly_summary                                                  *)
(***************************************************************************)

\* df_closed.groupby(["entry_year", "group_id"], dropna=False).agg(sum)
YearlyKey(r) == <<entry_year(r), r.group_id>>

YearlyGroupSummaryDropna(df_closed) ==
    {[entry_year |-> k[1], group_id |-> k[2],
      group_pnl |-> PnlSum(SelectSeq(df_closed, LAMBDA r : YearlyKey(r) = k))]
       : k \in {YearlyKey(df_closed[i]) :
                  i \in {j \in DOMAIN df_closed : ~IsNull(df_closed[j].group_id)}}}

YearlyGroupSummary(df_closed) ==
    {[entry_year |-> k[1], group_id |-> k[2],
      group_pnl |-> PnlSum(SelectSeq(df_closed, LAMBDA r : YearlyKey(r) = k))]
       : k \in {YearlyKey(df_closed[i]) : i \in DOMAIN df_closed}}

YearlyRowLegsAsGroups(year, group_summary, df_closed) ==
    LET year_groups == {g \in group_summary : g.entry_year = year}
        df_year_legs == SelectSeq(df_closed, LAMBDA r : entry_year(r) = year)
    IN [Year |-> year,
        TotalPnL |-> GroupPnlSum(year_groups),
        TradeGroups |-> Cardinality(year_groups),
        WinningGroups |-> Winning(year_groups),
        WinRate |-> WinRate(Winning(year_groups), Cardinality(year_groups)),
        TotalLegs |-> Cardinality(year_groups),
        LongLegs |-> CountDirection(df_year_legs, "Long"),
        ShortLegs |-> CountDirection(df_year_legs, "Short")]

YearlyRow(year, group_summary, df_closed) ==
    LET year_groups == {g \in group_summary : g.entry_year = year}
        df_year_legs == SelectSeq(df_closed, LAMBDA r : entry_year(r) = year)
    IN [Year |-> year,
        TotalPnL |-> GroupPnlSum(year_groups),
        TradeGroups |-> Cardinality(year_groups),
        WinningGroups |-> Winning(year_groups),
        WinRate |-> WinRate(Winning(year_groups), Cardinality(year_groups)),
        TotalLegs |-> Len(df_year_legs),
        LongLegs |-> CountDirection(df_year_legs, "Long"),
        ShortLegs |-> CountDirection(df_year_legs, "Short")]

YearlyTables(df_closed) ==
    LET group_summary == YearlyGroupSummary(df_closed)
        years == Ascending({g.entry_year : g \in group_summary})
        metrics_rows == [i \in DOMAIN years |-> YearlyRow(years[i], group_summary, df_closed)]
    IN [yearly_df |-> SortByYear(metrics_rows),
        overall |-> Some(Overall(group_summary, df_closed))]

EmptyYearly == [yearly_df |-> <<>>, overall |-> Null]

compute_yearly_summary_NoDateCheck(df_cat) ==
    IF df_cat = <<>> THEN EmptyYearly
    ELSE LET closed == SelectSeq(df_cat, IsClosedWithPnl)
         IN IF closed = <<>> THEN EmptyYearly
            ELSE YearlyTables(SelectSeq(closed, HasEntryDate))

\* df_cat is None and df_cat.empty are the one value <<>>
compute_yearly_summary(df_cat) ==
    IF df_cat = <<>> THEN EmptyYearly
    ELSE LET closed == SelectSeq(df_cat, IsClosedWithPnl)
         IN IF closed = <<>> THEN EmptyYearly
            ELSE LET df_closed == SelectSeq(closed, HasEntryDate)
                 IN IF df_closed = <<>> THEN EmptyYearly
                    ELSE YearlyTables(df_closed)

(***************************************************************************)
(* compute_portfolio_summary                                               *)
(***************************************************************************)

\* the four category constants, in the order sort_values puts the strings
CategoryOrder ==
    <<"Breakout Trades", "Commodity Cycles", "Equity Index Tracking", "Income">>

CategoryRank(c) == CHOOSE i \in DOMAIN CategoryOrder : CategoryOrder[i] = c

\* df_closed.groupby(["entry_year", "category", "group_id"], dropna=False).agg(sum)
PortfolioKey(r) == <<entry_year(r), r.category, r.group_id>>

PortfolioGroupSummary(df_closed) ==
    {[entry_year |-> k[1], category |-> k[2], group_id |-> k[3],
      group_pnl |-> PnlSum(SelectSeq(df_closed, LAMBDA r : PortfolioKey(r) = k))]
       : k \in {PortfolioKey(df_closed[i]) : i \in DOMAIN df_closed}}

\* the keys of group_summary.groupby(["entry_year", "category"], dropna=True),
\* in iteration order: rows whose category is null are dropped
RECURSIVE AscendingYearCategory(_)
AscendingYearCategory(S) ==
    IF S = {} THEN <<>>
    ELSE LET m == CHOOSE x \in S : \A y \in S :
                     \/ x[1] < y[1]
                     \/ x[1] = y[1] /\ CategoryRank(x[2]) <= CategoryRank(y[2])
         IN <<m>> \o AscendingYearCategory(S \ {m})

\* DataFrame.sort_values(["Year", "Category"]): stable insertion sort
YearCategoryLeq(a, b) ==
    \/ a.Year < b.Year
    \/ a.Year = b.Year /\ CategoryRank(a.Category) <= CategoryRank(b.Category)

RECURSIVE SortByYearCategory(_)
InsertByYearCategory(rw, sorted) ==
    LET before == SelectSeq(sorted, LAMBDA x : YearCategoryLeq(x, rw))
        after == SelectSeq(sorted, LAMBDA x : ~YearCategoryLeq(x, rw))
    IN before \o <<rw>> \o after
SortByYearCategory(rows) ==
    IF rows = <<>> THEN <<>>
    ELSE InsertByYearCategory(rows[Len(rows)],
                              SortByYearCategory(SubSeq(rows, 1, Len(rows) - 1)))

CatYearRow(year, category, group_summary, df_closed) ==
    LET g == {x \in group_summary : x.entry_year = year /\ x.category = Some(category)}
        df_legs_subset ==
            SelectSeq(df_closed,
                      LAMBDA r : entry_year(r) = year /\ r.category = Some(category))
    IN [Year |-> year,
        Category |-> category,
        TotalPnL |-> GroupPnlSum(g),
        TradeGroups |-> Cardinality(g),
        WinningGroups |-> Winning(g),
        WinRate |-> WinRate(Winning(g), Cardinality(g)),
        TotalLegs |-> Len(df_legs_subset),
        LongLegs |-> CountDirection(df_legs_subset, "Long"),
        ShortLegs |-> CountDirection(df_legs_subset, "Short")]

ByYearRowDropNullCategory(year, group_summary, df_closed) ==
    LET g == {x \in group_summary : x.entry_year = year}
        df_legs_subset ==
            SelectSeq(df_closed, LAMBDA r : entry_year(r) = year /\ ~IsNull(r.category))
    IN [Year |-> year,
        TotalPnL |-> GroupPnlSum(g),
        TradeGroups |-> Cardinality(g),
        WinningGroups |-> Winning(g),
        WinRate |-> WinRate(Winning(g), Cardinality(g)),
        TotalLegs |-> Len(df_legs_subset),
        LongLegs |-> CountDirection(df_legs_subset, "Long"),
        ShortLegs |-> CountDirection(df_legs_subset, "Short")]

\* one row of rows_by_year: the same columns as a row of the yearly table,
\* computed from the (entry_year, category, group_id) group rows
ByYearRow(year, group_summary, df_closed) ==
    LET g == {x \in group_summary : x.entry_year = year}
        df_legs_subset == SelectSeq(df_closed, LAMBDA r : entry_year(r) = year)
    IN [Year |-> year,
        TotalPnL |-> GroupPnlSum(g),
        TradeGroups |-> Cardinality(g),
        WinningGroups |-> Winning(g),
        WinRate |-> WinRate(Winning(g), Cardinality(g)),
        TotalLegs |-> Len(df_legs_subset),
        LongLegs |-> CountDirection(df_legs_subset, "Long"),
        ShortLegs |-> CountDirection(df_legs_subset, "Short")]

PortfolioTables(df_closed) ==
    LET group_summary == PortfolioGroupSummary(df_closed)
        cat_years == AscendingYearCategory(
                         {<<g.entry_year, Val(g.category)>> :
                            g \in {x \in group_summary : ~IsNull(x.category)}})
        rows_by_cat_year ==
            [i \in DOMAIN cat_years |->
               CatYearRow(cat_years[i][1], cat_years[i][2], group_summary, df_closed)]
        years == Ascending({g.entry_year : g \in group_summary})
        rows_by_year ==
            [i \in DOMAIN years |-> ByYearRow(years[i], group_summary, df_closed)]
    IN [by_cat_year_df |-> SortByYearCategory(rows_by_cat_year),
        by_year_df |-> SortByYear(rows_by_year),
        overall |-> Overall(group_summary, df_closed)]

\* the empty dict {} returned as overall
EmptyDict == [k \in {} |-> 0]

EmptyPortfolio == [by_cat_year_df |-> <<>>, by_year_df |-> <<>>, overall |-> EmptyDict]

compute_portfolio_summary(d) ==
    IF d = <<>> THEN EmptyPortfolio
    ELSE LET closed == SelectSeq(d, IsClosedWithPnl)
         IN IF closed = <<>> THEN EmptyPortfolio
            ELSE LET df_closed == SelectSeq(closed, HasEntryDate)
                 IN IF df_closed = <<>> THEN EmptyPortfolio
                    ELSE PortfolioTables(df_closed)

(***************************************************************************)
(* Inputs of the aggregators: every leg collection of at most MaxLegs rows *)
(* over small sets of the values of the columns the aggregators read.      *)
(***************************************************************************)
MaxLegs == 3

Years == {2024, 2025}
Categories == {"Breakout Trades", "Income"}
PnlValues == {-100, 100}

\* closed, dated Long legs with a pnl, in group 1 or in no group
CoreLegs ==
    [is_open : {FALSE},
     pnl : Opt(PnlValues) \ {Null},
     entry_date : Opt(Years) \ {Null},
     group_id : {Null, Some(1)},
     category : Opt(Categories) \ {Null},
     direction : {Some("Long")}]

\* Short legs of group 1
ShortLegs ==
    [is_open : {FALSE},
     pnl : Opt(PnlValues) \ {Null},
     entry_date : Opt(Years) \ {Null},
     group_id : {Some(1)},
     category : {Some("Breakout Trades")},
     direction : {Some("Short")}]

\* legacy rows without a category, and a row without a direction
LegacyLegs ==
    [is_open : {FALSE},
     pnl : Opt(PnlValues) \ {Null},
     entry_date : Opt(Years) \ {Null},
     group_id : {Some(1)},
     category : {Null},
     direction : {Some("Long")}]
    \cup
    {[is_open |-> FALSE, pnl |-> Some(100), entry_date |-> Some(2024),
      group_id |-> Some(1), category |-> Some("Breakout Trades"), direction |-> Null]}

\* legs of a second trade group
SecondGroupLegs ==
    [is_open : {FALSE},
     pnl : Opt(PnlValues) \ {Null},
     entry_date : {Some(2024)},
     group_id : {Some(2)},
     category : {Some("Breakout Trades")},
     direction : {Some("Long")}]

\* a leg just added (open, no pnl), an open leg carrying a pnl, a leg closed
\* without the prices its pnl needs, and a closed leg whose date is NaT
IneligibleLegs ==
    LET base == [is_open |-> FALSE, pnl |-> Some(100), entry_date |-> Some(2024),
                 group_id |-> Some(1), category |-> Some("Breakout Trades"),
                 direction |-> Some("Long")]
    IN {[base EXCEPT !.is_open = TRUE, !.pnl = Null],
        [base EXCEPT !.is_open = TRUE],
        [base EXCEPT !.pnl = Null],
        [base EXCEPT !.entry_date = Null]}

AggLegs == CoreLegs \cup ShortLegs \cup LegacyLegs \cup SecondGroupLegs \cup IneligibleLegs

RECURSIVE SetToSeq(_)
SetToSeq(S) ==
    IF S = {} THEN <<>>
    ELSE LET x == CHOOSE y \in S : TRUE IN <<x>> \o SetToSeq(S \ {x})

LegList == SetToSeq(AggLegs)

\* The aggregators read the rows only through filters, sums and counts, so a
\* collection is listed once, its rows in the order of LegList.
NonDecreasing(t) == \A i, j \in DOMAIN t : i < j => t[i] <= t[j]

InitAgg ==
    /\ \E n \in 0..MaxLegs : \E t \in [1..n -> DOMAIN LegList] :
         /\ NonDecreasing(t)
         /\ df = [i \in DOMAIN t |-> LegList[t[i]]]
    /\ yearly_call = NotCalled
    /\ portfolio_call = NotCalled
    /\ row = Null
    /\ pnl_call = NotCalled
    /\ JournalIdle

YearlySummary ==
    /\ yearly_call = NotCalled
    /\ yearly_call' = Returned(compute_yearly_summary(df))
    /\ UNCHANGED <<df, portfolio_call, row, pnl_call, journal_vars>>

PortfolioSummary ==
    /\ portfolio_call = NotCalled
    /\ portfolio_call' = Returned(compute_portfolio_summary(df))
    /\ UNCHANGED <<df, yearly_call, row, pnl_call, journal_vars>>

NextAgg == YearlySummary \/ PortfolioSummary

SpecAgg == InitAgg /\ [][NextAgg]_vars

(***************************************************************************)
(* The journal pages (render_year_journal): add-leg, select-for-edit and   *)
(* save-and-close, on the data file the sessions share.                    *)
(*                                                                         *)
(* file is the leg collection load_data reads from the data file, <<>>     *)
(* while no file exists.  A leg carries the twenty columns of              *)
(* REQUIRED_COLUMNS; dates are years, prices are ticks.  editing[s] is the *)
(* editing_* part of the session state of session s.  pending[s] is the    *)
(* copy df_all a handler of session s holds between its load_data and its  *)
(* save_data, Null outside a handler.                                      *)
(***************************************************************************)

\* the most legs the data file holds
MaxJournalLegs == 2

\* pd.read_csv turns an empty cell and a cell spelling a missing value into NaN
NaStrings == {"", "nan"}

ReadCell(c) == IF ~IsNull(c) /\ Val(c) \in NaStrings THEN Null ELSE c

\* save_data(d) as load_data reads it back: the free-text cells pass
\* through to_csv and read_csv, every other cell is read as it was written
save_data(d) ==
    [i \in DOMAIN d |-> [d[i] EXCEPT !.ticker = ReadCell(@), !.comments = ReadCell(@)]]

\* yfinance, as fetch_underlying_price meets it: history() raises, returns
\* an empty frame, or returns a frame whose last Close is the price
ProviderOutcomes ==
    {[hist |-> "raises"], [hist |-> "empty"], [hist |-> "close", Close |-> 10000]}

fetch_underlying_price_ZeroOnFailure(ticker, provider) ==
    IF ticker = "" THEN Null
    ELSE IF provider.hist = "raises" THEN Some(0)
    ELSE IF provider.hist = "empty" THEN Some(0)
    ELSE Some(provider.Close)

fetch_underlying_price(ticker, provider) ==
    IF ticker = "" THEN Null
    ELSE IF provider.hist = "raises" THEN Null
    ELSE IF provider.hist = "empty" THEN Null
    ELSE Some(provider.Close)

MaxOf(S) == CHOOSE m \in S : \A x \in S : x <= m

next_id_NoIncrement(df_all) ==
    LET ids == {df_all[i].id : i \in DOMAIN df_all}
    IN IF ids # {} THEN MaxOf(ids) ELSE 1

\* int(df_all["id"].dropna().max()) + 1, or 1
next_id(df_all) ==
    LET ids == {df_all[i].id : i \in DOMAIN df_all}
    IN IF ids # {} THEN MaxOf(ids) + 1 ELSE 1

next_group_id_NoIncrement(df_all) ==
    LET max_group == {Val(df_all[i].group_id) :
                        i \in {j \in DOMAIN df_all : ~IsNull(df_all[j].group_id)}}
    IN IF max_group # {} THEN MaxOf(max_group) ELSE 1

\* int(max_group.max()) + 1 over the non-null group_id cells, or 1
next_group_id(df_all) ==
    LET max_group == {Val(df_all[i].group_id) :
                        i \in {j \in DOMAIN df_all : ~IsNull(df_all[j].group_id)}}
    IN IF max_group # {} THEN MaxOf(max_group) + 1 ELSE 1

\* the group ids the "Existing trade group" selectbox offers on a page of
\* category_name
group_options(df_all, category_name) ==
    {Val(df_all[i].group_id) :
       i \in {j \in DOMAIN df_all : /\ df_all[j].category = Some(category_name)
                                    /\ ~IsNull(df_all[j].group_id)}}

\* selected_group_id: None unless the mode is "Existing trade group" and the
\* category has a group, then one of the offered groups
SelectableGroups(df_all, group_mode, category_name) ==
    IF group_mode = "Existing trade group" /\ group_options(df_all, category_name) # {}
    THEN {Some(g) : g \in group_options(df_all, category_name)}
    ELSE {Null}

\* the ticker typed into the add-leg form, after upper() and strip()
Tickers == {"", "AAPL"}

\* The values submitted with the add-leg form: on one category page a Stock
\* leg of a new trade and an Option leg for an existing group with its
\* premium typed, on another page an Option leg with the premium left at 0.0.
AddForms ==
    {[category_name |-> "Breakout Trades", group_mode |-> "New core trade",
      asset_type |-> "Stock", direction |-> "Long", entry_date |-> 2025,
      option_entry_price |-> 0, comments |-> ""],
     [category_name |-> "Breakout Trades", group_mode |-> "Existing trade group",
      asset_type |-> "Option", direction |-> "Short", entry_date |-> 2025,
      option_entry_price |-> 200, comments |-> ""],
     [category_name |-> "Income", group_mode |-> "New core trade",
      asset_type |-> "Option", direction |-> "Long", entry_date |-> 2025,
      option_entry_price |-> 0, comments |-> ""]}

new_row(df_all, form, ticker, selected_group_id, provider) ==
    [id |-> next_id(df_all),
     group_id |-> IF form.group_mode = "Existing trade group" /\ ~IsNull(selected_group_id)
                  THEN selected_group_id
                  ELSE Some(next_group_id(df_all)),
     category |-> Some(form.category_name),
     asset_type |-> Some(form.asset_type),
     ticker |-> Some(ticker),
     option_type |-> IF form.asset_type = "Option" THEN Some("Call") ELSE Null,
     strike |-> IF form.asset_type = "Option" THEN Some(15000) ELSE Null,
     expiry |-> IF form.asset_type = "Option" THEN Some(2025) ELSE Null,
     contracts_or_shares |-> 1,
     direction |-> Some(form.direction),
     leg_role |-> Some(IF form.group_mode = "New core trade" THEN "Core" ELSE "Hedge"),
     entry_date |-> Some(form.entry_date),
     entry_underlying_px |-> fetch_underlying_price(ticker, provider),
     option_entry_price |-> IF form.asset_type = "Option" /\ form.option_entry_price # 0
                            THEN Some(form.option_entry_price)
                            ELSE Null,
     exit_date |-> Null,
     exit_underlying_px |-> Null,
     option_exit_price |-> Null,
     pnl |-> Null,
     comments |-> Some(form.comments),
     is_open |-> TRUE]

add_leg_ReplaceLast(df_all, form, ticker, selected_group_id, provider) ==
    SubSeq(df_all, 1, Len(df_all) - 1)
        \o <<new_row(df_all, form, ticker, selected_group_id, provider)>>

\* pd.concat([df_all, pd.DataFrame([new_row])], ignore_index=True)
add_leg(df_all, form, ticker, selected_group_id, provider) ==
    df_all \o <<new_row(df_all, form, ticker, selected_group_id, provider)>>

\* The values submitted with the close form: both widgets left at their
\* initial values (Null), or a price and a closing note typed.
CloseForms ==
    {[exit_date |-> 2025, close_price |-> Null, comments |-> Null],
     [exit_date |-> 2025, close_price |-> Some(11000), comments |-> Some("closed early")]}

\* fetch_underlying_price(leg_row["ticker"]): a NaN ticker passes "not ticker"
\* and makes the provider call raise
auto_underlying(leg_row, provider) ==
    IF IsNull(leg_row.ticker) THEN Null
    ELSE fetch_underlying_price(Val(leg_row.ticker), provider)

\* the value of the number_input "Closing price"
close_price(leg_row, provider, typed) ==
    IF ~IsNull(typed) THEN Val(typed)
    ELSE IF leg_row.asset_type = Some("Stock") /\ ~IsNull(auto_underlying(leg_row, provider))
         THEN Val(auto_underlying(leg_row, provider))
         ELSE 0

\* the value of the text_area: str(leg_row.get("comments") or "") unless typed
updated_comments(leg_row, typed) ==
    IF ~IsNull(typed) THEN Val(typed)
    ELSE IF IsNull(leg_row.comments) THEN "nan"
    ELSE Val(leg_row.comments)

\* the exit cells and the comments the submit branch writes into row idx
with_exit_cells(leg_row, exit_date, provider, typed_price, typed_comments) ==
    [leg_row EXCEPT
       !.exit_date = Some(exit_date),
       !.exit_underlying_px =
           IF leg_row.asset_type = Some("Stock")
           THEN Some(close_price(leg_row, provider, typed_price))
           ELSE auto_underlying(leg_row, provider),
       !.option_exit_price =
           IF leg_row.asset_type = Some("Stock")
           THEN Null
           ELSE Some(close_price(leg_row, provider, typed_price)),
       !.comments = Some(updated_comments(leg_row, typed_comments))]

closed_row_StaysOpen(leg_row, exit_date, provider, typed_price, typed_comments) ==
    LET exits == with_exit_cells(leg_row, exit_date, provider, typed_price, typed_comments)
    IN [exits EXCEPT !.pnl = calculate_pnl(exits)]

closed_row_ResetEntryPrice(leg_row, exit_date, provider, typed_price, typed_comments) ==
    LET exits == [with_exit_cells(leg_row, exit_date, provider, typed_price, typed_comments)
                    EXCEPT !.is_open = FALSE,
                           !.entry_underlying_px = auto_underlying(leg_row, provider)]
    IN [exits EXCEPT !.pnl = calculate_pnl(exits)]

closed_row_PnlBeforeWrites(leg_row, exit_date, provider, typed_price, typed_comments) ==
    LET exits == [with_exit_cells(leg_row, exit_date, provider, typed_price, typed_comments)
                    EXCEPT !.is_open = FALSE]
    IN [exits EXCEPT !.pnl = calculate_pnl(leg_row)]

\* row idx of df_all after the submit branch: is_open False, and the pnl
\* calculate_pnl gives for the row with its new cells
closed_row(leg_row, exit_date, provider, typed_price, typed_comments) ==
    LET exits == [with_exit_cells(leg_row, exit_date, provider, typed_price, typed_comments)
                    EXCEPT !.is_open = FALSE]
    IN [exits EXCEPT !.pnl = calculate_pnl(exits)]

\* idx_list[0]: the first row of df_all whose id is editing_id
first_index(df_all, editing_id) ==
    CHOOSE i \in DOMAIN df_all :
        /\ df_all[i].id = editing_id
        /\ \A j \in DOMAIN df_all : df_all[j].id = editing_id => i <= j

close_leg(df_all, editing_id, exit_date, provider, typed_price, typed_comments) ==
    LET idx == first_index(df_all, editing_id)
    IN [df_all EXCEPT
          ![idx] = closed_row(df_all[idx], exit_date, provider, typed_price, typed_comments)]

\* df_open_sorted of the page (category_name, year): its rows in d
open_year(d, category_name, year) ==
    {i \in DOMAIN d : /\ d[i].category = category_name
                      /\ d[i].entry_date = year
                      /\ d[i].is_open = TRUE}

\* The edit form of session s is on the page: its year tab lists an open
\* leg, the session is editing a leg of this page, and the leg is in df_all.
EditorShown(s, d) ==
    /\ ~IsNull(editing[s].editing_leg_id)
    /\ open_year(d, editing[s].editing_category, editing[s].editing_year) # {}
    /\ \E i \in DOMAIN d : d[i].id = Val(editing[s].editing_leg_id)

(***************************************************************************)
(* The handlers, each run from its load_data to its save_data in one step. *)
(***************************************************************************)

\* "Add leg" submitted on a page of form.category_name
AddLeg ==
    /\ Len(file) < MaxJournalLegs
    /\ \E ticker \in Tickers :
         IF ticker = ""
         THEN UNCHANGED file
         ELSE \E form \in AddForms, provider \in ProviderOutcomes :
                \E selected_group_id \in
                       SelectableGroups(file, form.group_mode, form.category_name) :
                   file' = save_data(add_leg(file, form, ticker, selected_group_id, provider))
    /\ UNCHANGED <<editing, pending, core_vars>>

\* "Close / edit" pressed on the row of an open leg
SelectForEdit(s) ==
    /\ IsNull(pending[s])
    /\ \E i \in DOMAIN file :
         /\ file[i].is_open = TRUE
         /\ ~IsNull(file[i].category)
         /\ ~IsNull(file[i].entry_date)
         /\ editing' = [editing EXCEPT ![s] =
                          [editing_leg_id |-> Some(file[i].id),
                           editing_category |-> file[i].category,
                           editing_year |-> file[i].entry_date]]
    /\ UNCHANGED <<file, pending, core_vars>>

\* "Save & close leg" submitted in the edit form
SaveAndClose(s) ==
    /\ IsNull(pending[s])
    /\ EditorShown(s, file)
    /\ \E form \in CloseForms, provider \in ProviderOutcomes :
         file' = save_data(close_leg(file, Val(editing[s].editing_leg_id), form.exit_date,
                                     provider, form.close_price, form.comments))
    /\ editing' = [editing EXCEPT ![s] = NoEditing]
    /\ UNCHANGED <<pending, core_vars>>

InitJournal ==
    /\ JournalIdle
    /\ row = Null
    /\ pnl_call = NotCalled
    /\ df = <<>>
    /\ yearly_call = NotCalled
    /\ portfolio_call = NotCalled

NextJournal ==
    \/ AddLeg
    \/ \E s \in Sessions : SelectForEdit(s)
    \/ \E s \in Sessions : SaveAndClose(s)

SpecJournal == InitJournal /\ [][NextJournal]_vars

(***************************************************************************)
(* The add form of the single-page app (options_journal_app.py), which     *)
(* writes the same data file: its rows have no group_id, category or       *)
(* leg_role, and its entry price is typed, 0.0 standing for none.          *)
(***************************************************************************)
LegacyForms ==
    {[asset_type |-> "Stock", direction |-> "Long", entry_underlying_px |-> 10000],
     [asset_type |-> "Option", direction |-> "Long", entry_underlying_px |-> 0]}

legacy_new_row(d, form, ticker) ==
    [id |-> next_id(d),
     group_id |-> Null,
     category |-> Null,
     asset_type |-> Some(form.asset_type),
     ticker |-> Some(ticker),
     option_type |-> IF form.asset_type = "Option" THEN Some("Call") ELSE Null,
     strike |-> IF form.asset_type = "Option" THEN Some(15000) ELSE Null,
     expiry |-> IF form.asset_type = "Option" THEN Some(2025) ELSE Null,
     contracts_or_shares |-> 1,
     direction |-> Some(form.direction),
     leg_role |-> Null,
     entry_date |-> Some(2025),
     entry_underlying_px |-> IF form.entry_underlying_px # 0
                             THEN Some(form.entry_underlying_px)
                             ELSE Null,
     option_entry_price |-> Null,
     exit_date |-> Null,
     exit_underlying_px |-> Null,
     option_exit_price |-> Null,
     pnl |-> Null,
     comments |-> Some(""),
     is_open |-> TRUE]

\* "Add Trade" submitted in the single-page app
AddTradeLegacy ==
    /\ Len(file) < MaxJournalLegs
    /\ \E ticker \in Tickers :
         IF ticker = ""
         THEN UNCHANGED file
         ELSE \E form \in LegacyForms :
                file' = save_data(file \o <<legacy_new_row(file, form, ticker)>>)
    /\ UNCHANGED <<editing, pending, core_vars>>

NextJournalLegacy == NextJournal \/ AddTradeLegacy

SpecJournalLegacy == InitJournal /\ [][NextJournalLegacy]_vars

(***************************************************************************)
(* The handlers with the price lookup between load_data and save_data as a *)
(* point where another session's handler can run: a handler loads and      *)
(* changes its copy in one step and writes the copy in a later step.       *)
(***************************************************************************)
\* The interleavings are explored for the add forms of one category page,
\* one close form and a lookup that answers: which rows a write keeps does
\* not depend on the values typed.
RaceAddForms == {f \in AddForms : f.category_name = "Breakout Trades"}
RaceCloseForms == {f \in CloseForms : ~IsNull(f.close_price)}
RaceOutcomes == {o \in ProviderOutcomes : o.hist = "close"}

Held(handler, loaded, df_all) ==
    Some([handler |-> handler, loaded |-> loaded, df_all |-> df_all])

\* "Add leg" up to the lookup: df_all = load_data() and the new row
LoadForAdd(s) ==
    /\ IsNull(pending[s])
    /\ Len(file) < MaxJournalLegs
    /\ \E form \in RaceAddForms, provider \in RaceOutcomes :
         \E selected_group_id \in
                SelectableGroups(file, form.group_mode, form.category_name) :
            pending' = [pending EXCEPT ![s] =
                          Held("add", file,
                               add_leg(file, form, "AAPL", selected_group_id, provider))]
    /\ UNCHANGED <<file, editing, core_vars>>

\* "Save & close leg" up to the lookup: df_all = load_data() and the closed row
LoadForClose(s) ==
    /\ IsNull(pending[s])
    /\ EditorShown(s, file)
    /\ \E form \in RaceCloseForms, provider \in RaceOutcomes :
         pending' = [pending EXCEPT ![s] =
                       Held("close", file,
                            close_leg(file, Val(editing[s].editing_leg_id), form.exit_date,
                                      provider, form.close_price, form.comments))]
    /\ UNCHANGED <<file, editing, core_vars>>

SaveHeld_Append(s) ==
    /\ ~IsNull(pending[s])
    /\ file' = save_data(file \o SubSeq(Val(pending[s]).df_all, Len(file) + 1,
                                        Len(Val(pending[s]).df_all)))
    /\ pending' = [pending EXCEPT ![s] = Null]
    /\ editing' = IF Val(pending[s]).handler = "close"
                  THEN [editing EXCEPT ![s] = NoEditing]
                  ELSE editing
    /\ UNCHANGED core_vars

\* save_data(df_all), and the close handler's reset of the editing state
SaveHeld(s) ==
    /\ ~IsNull(pending[s])
    /\ file' = save_data(Val(pending[s]).df_all)
    /\ pending' = [pending EXCEPT ![s] = Null]
    /\ editing' = IF Val(pending[s]).handler = "close"
                  THEN [editing EXCEPT ![s] = NoEditing]
                  ELSE editing
    /\ UNCHANGED core_vars

NextRace ==
    \/ \E s \in Sessions : LoadForAdd(s)
    \/ \E s \in Sessions : SelectForEdit(s)
    \/ \E s \in Sessions : LoadForClose(s)
    \/ \E s \in Sessions : SaveHeld(s)

SpecRace == InitJournal /\ [][NextRace]_vars

(***************************************************************************)
(* Claims about calculate_pnl, checked under SpecPnl.                      *)
(***************************************************************************)
LongOrShort(r) == r.direction \in {Some("Long"), Some("Short")}
SignOf(r) == IF r.direction = Some("Long") THEN 1 ELSE -1
HasUnderlyingPair(r) == ~IsNull(r.entry_underlying_px) /\ ~IsNull(r.exit_underlying_px)
HasOptionPair(r) == ~IsNull(r.option_entry_price) /\ ~IsNull(r.option_exit_price)

\* C1: for a Stock leg with direction Long or Short and both underlying
\* prices present, calculate_pnl returns (exit_underlying_px -
\* entry_underlying_px) * contracts_or_shares * m, m = +1 for Long and -1 for
\* Short, whatever the option price fields hold; Long 100.00 -> 110.00 x 5
\* gives 50.00 (5000 ticks) and Short gives -50.00.
C1_StockPnl ==
    (pnl_call.done /\ row.asset_type = Some("Stock") /\ LongOrShort(row)
       /\ HasUnderlyingPair(row))
    => /\ pnl_call.ret =
            Some((Val(row.exit_underlying_px) - Val(row.entry_underlying_px))
                 * row.contracts_or_shares * SignOf(row))
       /\ (Val(row.entry_underlying_px) = 10000 /\ Val(row.exit_underlying_px) = 11000
             /\ row.contracts_or_shares = 5)
          => pnl_call.ret = (IF row.direction = Some("Long") THEN Some(5000) ELSE Some(-5000))

C1_Witness ==
    /\ pnl_call.done
    /\ row.asset_type = Some("Stock") /\ row.direction = Some("Short")
    /\ row.entry_underlying_px = Some(10000) /\ row.exit_underlying_px = Some(11000)
    /\ row.contracts_or_shares = 5
    /\ row.option_entry_price = Some(200) /\ row.option_exit_price = Some(350)
    /\ pnl_call.ret = Some(-5000)

\* C2: for an Option leg with direction Long or Short and both option prices
\* present, calculate_pnl returns (option_exit_price - option_entry_price) *
\* contracts_or_shares * 100 * m, whatever the underlying price fields hold;
\* Long 2.00 -> 3.50 x 10 gives 1500.00 (150000 ticks).
C2_OptionPnl ==
    (pnl_call.done /\ row.asset_type = Some("Option") /\ LongOrShort(row)
       /\ HasOptionPair(row))
    => /\ pnl_call.ret =
            Some((Val(row.option_exit_price) - Val(row.option_entry_price))
                 * row.contracts_or_shares * 100 * SignOf(row))
       /\ (Val(row.option_entry_price) = 200 /\ Val(row.option_exit_price) = 350
             /\ row.contracts_or_shares = 10 /\ row.direction = Some("Long"))
          => pnl_call.ret = Some(150000)

C2_Witness ==
    /\ pnl_call.done
    /\ row.asset_type = Some("Option") /\ row.direction = Some("Long")
    /\ row.option_entry_price = Some(200) /\ row.option_exit_price = Some(350)
    /\ row.contracts_or_shares = 10
    /\ IsNull(row.entry_underlying_px) /\ IsNull(row.exit_underlying_px)
    /\ pnl_call.ret = Some(150000)

\* C3: calculate_pnl returns none, never zero, when direction is missing
\* (even with every price present), when asset_type is neither Stock nor
\* Option, when a Stock leg lacks an underlying price and when an Option leg
\* lacks an option price.
NotComputable(r) ==
    \/ IsNull(r.direction)
    \/ r.asset_type \notin {Some("Stock"), Some("Option")}
    \/ r.asset_type = Some("Stock") /\ ~HasUnderlyingPair(r)
    \/ r.asset_type = Some("Option") /\ ~HasOptionPair(r)

C3_NoneWhenNotComputable ==
    (pnl_call.done /\ NotComputable(row)) => pnl_call.ret = Null

C3_Witness ==
    /\ pnl_call.done
    /\ row.asset_type = Some("Stock") /\ row.direction = Some("Long")
    /\ row.entry_underlying_px = Some(10000) /\ IsNull(row.exit_underlying_px)
    /\ HasOptionPair(row)
    /\ pnl_call.ret = Null

(***************************************************************************)
(* Claims about the aggregators, checked under SpecAgg.                    *)
(***************************************************************************)
Eligible(r) == r.is_open = FALSE /\ ~IsNull(r.pnl) /\ ~IsNull(r.entry_date)
EligibleLegs == SelectSeq(df, Eligible)
EligibleOfYear(y) == SelectSeq(EligibleLegs, LAMBDA r : Val(r.entry_date) = y)
YearsPresent == {Val(EligibleLegs[i].entry_date) : i \in DOMAIN EligibleLegs}
SeqRange(s) == {s[i] : i \in DOMAIN s}
OverallIsRecord(o) == DOMAIN o # {}

\* C4: a leg that is open, or has no pnl, or has an unparseable entry_date
\* contributes to nothing: both aggregators return what they return for the
\* collection without those legs, and the overall Total Legs and Total PnL
\* are the count and the pnl sum of the eligible legs alone.
C4_IneligibleLegsExcluded ==
    /\ yearly_call.done =>
         /\ yearly_call.ret = compute_yearly_summary(EligibleLegs)
         /\ ~IsNull(yearly_call.ret.overall) =>
              /\ Val(yearly_call.ret.overall).TotalLegs = Len(EligibleLegs)
              /\ Val(yearly_call.ret.overall).TotalPnL = PnlSum(EligibleLegs)
    /\ portfolio_call.done =>
         /\ portfolio_call.ret = compute_portfolio_summary(EligibleLegs)
         /\ OverallIsRecord(portfolio_call.ret.overall) =>
              /\ portfolio_call.ret.overall.TotalLegs = Len(EligibleLegs)
              /\ portfolio_call.ret.overall.TotalPnL = PnlSum(EligibleLegs)

C4_Witness ==
    /\ yearly_call.done /\ portfolio_call.done
    /\ \E i, j, k \in DOMAIN df :
         /\ df[i].is_open /\ ~IsNull(df[i].pnl) /\ ~IsNull(df[i].entry_date)
         /\ ~df[j].is_open /\ ~IsNull(df[j].pnl) /\ IsNull(df[j].entry_date)
         /\ Eligible(df[k])
    /\ Val(yearly_call.ret.overall).TotalLegs = 1
    /\ portfolio_call.ret.overall.TotalLegs = 1

\* the group counts a table reports for year y (zero when it has no such row)
NoRow == [TotalPnL |-> 0, TradeGroups |-> 0, WinningGroups |-> 0]
CountsOf(rw) ==
    [TotalPnL |-> rw.TotalPnL, TradeGroups |-> rw.TradeGroups,
     WinningGroups |-> rw.WinningGroups]
YearCounts(tbl, y) ==
    IF \E i \in DOMAIN tbl : tbl[i].Year = y
    THEN CountsOf(tbl[CHOOSE i \in DOMAIN tbl : tbl[i].Year = y])
    ELSE NoRow
CatYearCounts(tbl, y, c) ==
    IF \E i \in DOMAIN tbl : tbl[i].Year = y /\ tbl[i].Category = c
    THEN CountsOf(tbl[CHOOSE i \in DOMAIN tbl : tbl[i].Year = y /\ tbl[i].Category = c])
    ELSE NoRow
OverallCounts(o) == IF OverallIsRecord(o) THEN CountsOf(o) ELSE NoRow
YearlyOverallCounts(o) == IF IsNull(o) THEN NoRow ELSE CountsOf(Val(o))
Plus(a, groups, wins, pnl) ==
    [TotalPnL |-> a.TotalPnL + pnl, TradeGroups |-> a.TradeGroups + groups,
     WinningGroups |-> a.WinningGroups + wins]
Bit(b) == IF b THEN 1 ELSE 0
PositiveCount(legs) == Len(SelectSeq(legs, LAMBDA r : Val(r.pnl) > 0))

\* the eligible legs of entry year y with group_id g (and category c)
InYearGroup(r, y, g) == Eligible(r) /\ Val(r.entry_date) = y /\ r.group_id = g
InYearCatGroup(r, y, c, g) == InYearGroup(r, y, g) /\ r.category = c

\* What the legs of (y, g) add to the yearly table and its overall record:
\* the reported counts are those of the collection without these legs plus
\* `groups` groups, `wins` winning groups and the legs' pnl.
YearlyAdds(y, g, groups, wins) ==
    LET members == SelectSeq(df, LAMBDA r : InYearGroup(r, y, g))
        rest == compute_yearly_summary(SelectSeq(df, LAMBDA r : ~InYearGroup(r, y, g)))
        got == yearly_call.ret
    IN /\ YearCounts(got.yearly_df, y) =
            Plus(YearCounts(rest.yearly_df, y), groups, wins, PnlSum(members))
       /\ YearlyOverallCounts(got.overall) =
            Plus(YearlyOverallCounts(rest.overall), groups, wins, PnlSum(members))

\* The same for the legs of (y, c, g) and the three outputs of the portfolio
\* summary; a null category has no by-(year, category) row.
PortfolioAdds(y, c, g, groups, wins) ==
    LET members == SelectSeq(df, LAMBDA r : InYearCatGroup(r, y, c, g))
        rest == compute_portfolio_summary(
                    SelectSeq(df, LAMBDA r : ~InYearCatGroup(r, y, c, g)))
        got == portfolio_call.ret
    IN /\ ~IsNull(c) =>
            CatYearCounts(got.by_cat_year_df, y, Val(c)) =
              Plus(CatYearCounts(rest.by_cat_year_df, y, Val(c)), groups, wins,
                   PnlSum(members))
       /\ YearCounts(got.by_year_df, y) =
            Plus(YearCounts(rest.by_year_df, y), groups, wins, PnlSum(members))
       /\ OverallCounts(got.overall) =
            Plus(OverallCounts(rest.overall), groups, wins, PnlSum(members))

GroupIdsPresent == {df[i].group_id : i \in DOMAIN df} \ {Null}
CategoriesPresent == {df[i].category : i \in DOMAIN df}

\* C5: the eligible legs sharing a non-null group_id within one entry year
\* (and one category, in the portfolio summary) form exactly one trade
\* group: whatever their number they add 1 to Trade Groups, the sum of their
\* pnl to Total PnL, and 1 to Winning Groups iff that sum is > 0.
C5_OneGroupPerYearAndGroupId ==
    /\ yearly_call.done =>
         \A y \in YearsPresent : \A g \in GroupIdsPresent :
            LET members == SelectSeq(df, LAMBDA r : InYearGroup(r, y, g))
            IN members # <<>> => YearlyAdds(y, g, 1, Bit(PnlSum(members) > 0))
    /\ portfolio_call.done =>
         \A y \in YearsPresent : \A c \in CategoriesPresent : \A g \in GroupIdsPresent :
            LET members == SelectSeq(df, LAMBDA r : InYearCatGroup(r, y, c, g))
            IN members # <<>> => PortfolioAdds(y, c, g, 1, Bit(PnlSum(members) > 0))

\* two legs of group 1 whose pnl sums to exactly 0, beside a winning group 2
C5_Witness ==
    /\ yearly_call.done /\ portfolio_call.done
    /\ Len(df) = 3
    /\ \E i, j, k \in DOMAIN df :
         /\ InYearCatGroup(df[i], 2024, Some("Breakout Trades"), Some(1))
         /\ InYearCatGroup(df[j], 2024, Some("Breakout Trades"), Some(1))
         /\ df[i].pnl = Some(100) /\ df[j].pnl = Some(-100)
         /\ InYearCatGroup(df[k], 2024, Some("Breakout Trades"), Some(2))
         /\ df[k].pnl = Some(100)
    /\ YearCounts(yearly_call.ret.yearly_df, 2024) =
         [TotalPnL |-> 100, TradeGroups |-> 2, WinningGroups |-> 1]
    /\ CatYearCounts(portfolio_call.ret.by_cat_year_df, 2024, "Breakout Trades") =
         [TotalPnL |-> 100, TradeGroups |-> 2, WinningGroups |-> 1]

\* C6: in every row and every overall record of both aggregators,
\* 0 <= Winning Groups <= Trade Groups, Win Rate = Winning Groups / Trade
\* Groups and so lies in [0,1], and Win Rate is 0 when Trade Groups is 0.
WinRateOk(rw) ==
    /\ 0 <= rw.WinningGroups /\ rw.WinningGroups <= rw.TradeGroups
    /\ rw.WinRate.den > 0
    /\ rw.WinRate.num * rw.TradeGroups = rw.WinningGroups * rw.WinRate.den
    /\ 0 <= rw.WinRate.num /\ rw.WinRate.num <= rw.WinRate.den
    /\ rw.TradeGroups = 0 => rw.WinRate.num = 0

C6_WinRateInUnitInterval ==
    /\ yearly_call.done =>
         /\ \A i \in DOMAIN yearly_call.ret.yearly_df : WinRateOk(yearly_call.ret.yearly_df[i])
         /\ ~IsNull(yearly_call.ret.overall) => WinRateOk(Val(yearly_call.ret.overall))
    /\ portfolio_call.done =>
         /\ \A i \in DOMAIN portfolio_call.ret.by_cat_year_df :
               WinRateOk(portfolio_call.ret.by_cat_year_df[i])
         /\ \A i \in DOMAIN portfolio_call.ret.by_year_df :
               WinRateOk(portfolio_call.ret.by_year_df[i])
         /\ OverallIsRecord(portfolio_call.ret.overall) =>
               WinRateOk(portfolio_call.ret.overall)

C6_Witness ==
    /\ yearly_call.done /\ portfolio_call.done
    /\ \E i \in DOMAIN yearly_call.ret.yearly_df :
         /\ yearly_call.ret.yearly_df[i].TradeGroups = 2
         /\ yearly_call.ret.yearly_df[i].WinningGroups = 1
         /\ yearly_call.ret.yearly_df[i].WinRate = [num |-> 1, den |-> 2]
    /\ portfolio_call.ret.overall.TradeGroups = 3
    /\ portfolio_call.ret.overall.WinningGroups = 2
    /\ portfolio_call.ret.overall.WinRate = [num |-> 2, den |-> 3]

\* C7 (as claimed): every eligible leg with a null group_id is its own trade
\* group, so the k such legs of one entry year (and category) add k to Trade
\* Groups and as many to Winning Groups as have a pnl > 0.
C7_NullGroupLegsAreSingletons ==
    /\ yearly_call.done =>
         \A y \in YearsPresent :
            LET members == SelectSeq(df, LAMBDA r : InYearGroup(r, y, Null))
            IN YearlyAdds(y, Null, Len(members), PositiveCount(members))
    /\ portfolio_call.done =>
         \A y \in YearsPresent : \A c \in CategoriesPresent :
            LET members == SelectSeq(df, LAMBDA r : InYearCatGroup(r, y, c, Null))
            IN PortfolioAdds(y, c, Null, Len(members), PositiveCount(members))

\* C7 (amended): the eligible legs with a null group_id of one entry year
\* (and one category, in the portfolio summary) form one shared trade group:
\* k >= 1 such legs add exactly 1 to Trade Groups, and 1 to Winning Groups
\* iff the sum of their pnl is > 0.
C7_NullGroupLegsShareOneGroup ==
    /\ yearly_call.done =>
         \A y \in YearsPresent :
            LET members == SelectSeq(df, LAMBDA r : InYearGroup(r, y, Null))
            IN members # <<>> => YearlyAdds(y, Null, 1, Bit(PnlSum(members) > 0))
    /\ portfolio_call.done =>
         \A y \in YearsPresent : \A c \in CategoriesPresent :
            LET members == SelectSeq(df, LAMBDA r : InYearCatGroup(r, y, c, Null))
            IN members # <<>> => PortfolioAdds(y, c, Null, 1, Bit(PnlSum(members) > 0))

\* three null-group legs of one year and category, two of them winning on
\* their own: one trade group, one winning group
C7_Witness ==
    /\ yearly_call.done /\ portfolio_call.done
    /\ Len(df) = 3
    /\ \A i \in DOMAIN df : InYearCatGroup(df[i], 2024, Some("Income"), Null)
    /\ PositiveCount(df) = 2
    /\ YearCounts(yearly_call.ret.yearly_df, 2024) =
         [TotalPnL |-> 100, TradeGroups |-> 1, WinningGroups |-> 1]
    /\ CatYearCounts(portfolio_call.ret.by_cat_year_df, 2024, "Income") =
         [TotalPnL |-> 100, TradeGroups |-> 1, WinningGroups |-> 1]

\* C8 (as claimed): in the overall record of compute_yearly_summary, Trade
\* Groups is the number of distinct group_ids among the eligible legs and
\* Winning Groups the number of those whose pnl, summed over all their
\* eligible legs of every year, is > 0 (stated for collections whose
\* eligible legs all have a group_id).
EligibleGroupIds == {EligibleLegs[i].group_id : i \in DOMAIN EligibleLegs}
GroupTotal(g) == PnlSum(SelectSeq(EligibleLegs, LAMBDA r : r.group_id = g))

C8_OverallCountsWholeGroups ==
    (yearly_call.done /\ ~IsNull(yearly_call.ret.overall) /\ Null \notin EligibleGroupIds)
    => /\ Val(yearly_call.ret.overall).TradeGroups = Cardinality(EligibleGroupIds)
       /\ Val(yearly_call.ret.overall).WinningGroups =
            Cardinality({g \in EligibleGroupIds : GroupTotal(g) > 0})

\* C9 (as claimed): the by-year table of compute_portfolio_summary has the
\* rows of compute_yearly_summary applied to the same collection.
C9_ByYearEqualsYearly ==
    (yearly_call.done /\ portfolio_call.done)
    => portfolio_call.ret.by_year_df = yearly_call.ret.yearly_df

\* C9 (amended): the two tables have the same years in the same order and
\* agree on Total PnL and on Total, Long and Short Legs; the by-year table
\* counts one trade group per (category, group_id) pair of the year, so it
\* agrees on Trade Groups, Winning Groups and Win Rate as well whenever no
\* group_id (a null one included) occurs with two categories (a null one
\* included) within a year.
LegColumns(rw) ==
    [Year |-> rw.Year, TotalPnL |-> rw.TotalPnL, TotalLegs |-> rw.TotalLegs,
     LongLegs |-> rw.LongLegs, ShortLegs |-> rw.ShortLegs]
OneCategoryPerGroupAndYear ==
    \A i, j \in DOMAIN EligibleLegs :
       (EligibleLegs[i].entry_date = EligibleLegs[j].entry_date
          /\ EligibleLegs[i].group_id = EligibleLegs[j].group_id)
       => EligibleLegs[i].category = EligibleLegs[j].category

C9_ByYearEqualsYearlyUpToGroupSplit ==
    (yearly_call.done /\ portfolio_call.done)
    => LET by_year == portfolio_call.ret.by_year_df
           yearly == yearly_call.ret.yearly_df
       IN /\ Len(by_year) = Len(yearly)
          /\ \A i \in DOMAIN by_year :
               /\ LegColumns(by_year[i]) = LegColumns(yearly[i])
               /\ by_year[i].TradeGroups =
                    Cardinality({<<r.category, r.group_id>> :
                                   r \in SeqRange(EligibleOfYear(by_year[i].Year))})
          /\ OneCategoryPerGroupAndYear => by_year = yearly

\* group 1 with a leg in each of two categories and a legacy leg without
\* category, all of 2024: three groups by year, one in the yearly summary
C9_Witness ==
    /\ yearly_call.done /\ portfolio_call.done
    /\ Len(df) = 3
    /\ \A i \in DOMAIN df : InYearGroup(df[i], 2024, Some(1))
    /\ {df[i].category : i \in DOMAIN df} = Opt(Categories)
    /\ Len(portfolio_call.ret.by_year_df) = 1
    /\ portfolio_call.ret.by_year_df[1].TradeGroups = 3
    /\ yearly_call.ret.yearly_df[1].TradeGroups = 1
    /\ portfolio_call.ret.by_year_df[1].TotalLegs = 3
    /\ yearly_call.ret.yearly_df[1].TotalLegs = 3

\* C10: the yearly table has exactly one row per entry year of an eligible
\* leg and no other row, in ascending Year order; a row's Total PnL is the
\* pnl of the year's groups, i.e. of its eligible legs, and its Total, Long
\* and Short Legs count the year's eligible legs, not its groups.
C10_YearlyRows ==
    yearly_call.done =>
       LET yearly == yearly_call.ret.yearly_df
       IN /\ {yearly[i].Year : i \in DOMAIN yearly} = YearsPresent
          /\ Len(yearly) = Cardinality(YearsPresent)
          /\ \A i, j \in DOMAIN yearly : i < j => yearly[i].Year < yearly[j].Year
          /\ \A i \in DOMAIN yearly :
               LET legs == EligibleOfYear(yearly[i].Year)
               IN /\ yearly[i].TotalPnL = PnlSum(legs)
                  /\ yearly[i].TotalLegs = Len(legs)
                  /\ yearly[i].LongLegs =
                       Len(SelectSeq(legs, LAMBDA r : r.direction = Some("Long")))
                  /\ yearly[i].ShortLegs =
                       Len(SelectSeq(legs, LAMBDA r : r.direction = Some("Short")))

\* a group of three Long legs: 3 legs, 3 Long legs, 1 trade group
C10_Witness ==
    /\ yearly_call.done
    /\ Len(df) = 3
    /\ \A i \in DOMAIN df : InYearGroup(df[i], 2025, Some(1)) /\ df[i].direction = Some("Long")
    /\ Len(yearly_call.ret.yearly_df) = 1
    /\ yearly_call.ret.yearly_df[1].Year = 2025
    /\ yearly_call.ret.yearly_df[1].TotalLegs = 3
    /\ yearly_call.ret.yearly_df[1].LongLegs = 3
    /\ yearly_call.ret.yearly_df[1].ShortLegs = 0
    /\ yearly_call.ret.yearly_df[1].TradeGroups = 1

(***************************************************************************)
(* C11: when the collection is absent or empty, or holds no closed leg     *)
(* with a pnl, or none of those has a parseable entry_date, then           *)
(* compute_yearly_summary returns an empty yearly table and no overall     *)
(* record (None), and compute_portfolio_summary returns two empty tables   *)
(* and an overall record without any key ({}).                             *)
(***************************************************************************)
C11_EmptyResults ==
    EligibleLegs = <<>> =>
        /\ yearly_call.done =>
             /\ yearly_call.ret.yearly_df = <<>>
             /\ IsNull(yearly_call.ret.overall)
        /\ portfolio_call.done =>
             /\ portfolio_call.ret.by_cat_year_df = <<>>
             /\ portfolio_call.ret.by_year_df = <<>>
             /\ DOMAIN portfolio_call.ret.overall = {}

\* both aggregators have returned on a collection whose only closed leg with
\* a pnl has no entry_date
C11_Witness ==
    /\ yearly_call.done
    /\ portfolio_call.done
    /\ EligibleLegs = <<>>
    /\ \E i \in DOMAIN df :
         df[i].is_open = FALSE /\ ~IsNull(df[i].pnl) /\ IsNull(df[i].entry_date)

(***************************************************************************)
(* Claims about the journal pages.                                         *)
(***************************************************************************)
RequiredPairPresent(leg) ==
    \/ leg.asset_type = Some("Stock")
         /\ ~IsNull(leg.entry_underlying_px) /\ ~IsNull(leg.exit_underlying_px)
    \/ leg.asset_type = Some("Option")
         /\ ~IsNull(leg.option_entry_price) /\ ~IsNull(leg.option_exit_price)

NoExitData(leg) ==
    /\ IsNull(leg.exit_date)
    /\ IsNull(leg.exit_underlying_px)
    /\ IsNull(leg.option_exit_price)
    /\ IsNull(leg.pnl)

\* the step appends one leg to the data file
LegAdded == Len(file') = Len(file) + 1

(***************************************************************************)
(* C12: from the empty journal, a leg just added is open and has no        *)
(* exit_date, no exit_underlying_px, no option_exit_price and no pnl; and  *)
(* in every persisted state a leg with a pnl is closed and has both prices *)
(* of the pair its asset type requires.                                    *)
(***************************************************************************)
C12_NewLegOpenAndPnlOnlyWhenClosed ==
    /\ [](\A i \in DOMAIN file :
            ~IsNull(file[i].pnl) =>
                file[i].is_open = FALSE /\ RequiredPairPresent(file[i]))
    /\ [][LegAdded =>
            file'[Len(file')].is_open = TRUE /\ NoExitData(file'[Len(file')])]_vars

\* a closed Stock leg with its pnl, next to a leg added after it
C12_Witness ==
    /\ Len(file) = 2
    /\ file[1].asset_type = Some("Stock")
    /\ ~IsNull(file[1].pnl)
    /\ file[2].is_open = TRUE
    /\ file[2].id > file[1].id

(***************************************************************************)
(* C13: a leg is closed once: no step of any session changes the           *)
(* exit_date, the exit prices or the pnl of a leg that is already closed   *)
(* in the data file.                                                       *)
(***************************************************************************)
C13_ClosedLegNeverOverwritten ==
    [][\A i \in DOMAIN file :
          file[i].is_open = FALSE =>
              /\ i \in DOMAIN file'
              /\ file'[i].exit_date = file[i].exit_date
              /\ file'[i].exit_underlying_px = file[i].exit_underlying_px
              /\ file'[i].option_exit_price = file[i].option_exit_price
              /\ file'[i].pnl = file[i].pnl]_vars

(***************************************************************************)
(* C14: with the handlers run one after another, a leg id in the data file *)
(* stays in it, and a closed leg stays closed.                             *)
(***************************************************************************)
C14_NeverDeletedNeverReopened ==
    [][\A i \in DOMAIN file :
          /\ \E j \in DOMAIN file' : file'[j].id = file[i].id
          /\ file[i].is_open = FALSE =>
                \A j \in DOMAIN file' :
                    file'[j].id = file[i].id => file'[j].is_open = FALSE]_vars

\* a closed leg followed by a leg added to the file that held it
C14_Witness ==
    /\ Len(file) = 2
    /\ file[1].is_open = FALSE
    /\ file[2].id = file[1].id + 1

(***************************************************************************)
(* C15: a close of leg L changes no leg but L, and of L at most the        *)
(* columns exit_date, exit_underlying_px, option_exit_price, is_open, pnl  *)
(* and the columns named free.  The close is the step in which a session   *)
(* stops editing; L is the leg it was editing.                             *)
(***************************************************************************)
EntryColumns ==
    {"id", "group_id", "category", "asset_type", "ticker", "option_type", "strike",
     "expiry", "contracts_or_shares", "direction", "leg_role", "entry_date",
     "entry_underlying_px", "option_entry_price"}

ClosingStep(s) ==
    ~IsNull(editing[s].editing_leg_id) /\ IsNull(editing'[s].editing_leg_id)

CloseKeeps(columns) ==
    \A s \in Sessions :
        ClosingStep(s) =>
            /\ Len(file') = Len(file)
            /\ \A i \in DOMAIN file :
                 IF file[i].id = Val(editing[s].editing_leg_id)
                 THEN \A c \in columns : file'[i][c] = file[i][c]
                 ELSE file'[i] = file[i]

\* as claimed: the comments of L are kept as well
C15_CloseChangesOnlyExitFields == [][CloseKeeps(EntryColumns \cup {"comments"})]_vars

\* as the code has it: the comments of L become the text of the close form
C15_CloseChangesOnlyExitFieldsAndComments == [][CloseKeeps(EntryColumns)]_vars

\* a leg closed with a closing note typed, next to another leg
C15_Witness ==
    /\ Len(file) = 2
    /\ \E i \in DOMAIN file :
         file[i].is_open = FALSE /\ file[i].comments = Some("closed early")

(***************************************************************************)
(* C16: from the empty journal no two legs of the data file have the same  *)
(* id, and a leg just added has id 1 when the file held no leg and the     *)
(* largest id of the file plus 1 otherwise; the add form of the            *)
(* single-page app is among the operations.                                *)
(***************************************************************************)
IdsOf(d) == {d[i].id : i \in DOMAIN d}

C16_IdsUniqueAndNextIsMaxPlusOne ==
    /\ [](\A i, j \in DOMAIN file : file[i].id = file[j].id => i = j)
    /\ [][LegAdded =>
            file'[Len(file')].id = IF file = <<>> THEN 1 ELSE MaxOf(IdsOf(file)) + 1]_vars

\* a leg of the single-page app and a leg of a category page in one file
C16_Witness ==
    /\ Len(file) = 2
    /\ IsNull(file[1].category)
    /\ ~IsNull(file[2].category)
    /\ file[1].id = 1
    /\ file[2].id = 2

(***************************************************************************)
(* C17: fetch_underlying_price returns None for an empty ticker, an empty  *)
(* history and an exception; the add-leg step whose lookup fails appends   *)
(* the new leg, open and without an entry_underlying_px; every             *)
(* save-and-close step leaves the leg closed in the data file, the         *)
(* exit_underlying_px of an Option leg being what the lookup returned,     *)
(* None included.                                                          *)
(***************************************************************************)
LookupFails(provider) == provider.hist \in {"raises", "empty"}

LookupResults == {fetch_underlying_price("AAPL", provider) : provider \in ProviderOutcomes}

C17_FailedLookupNeverBlocks ==
    /\ [](\A provider \in ProviderOutcomes :
            /\ IsNull(fetch_underlying_price("", provider))
            /\ LookupFails(provider) => IsNull(fetch_underlying_price("AAPL", provider)))
    /\ [][/\ LegAdded =>
              \A provider \in {o \in ProviderOutcomes : LookupFails(o)}, form \in AddForms :
                 \A g \in SelectableGroups(file, form.group_mode, form.category_name) :
                    file' = save_data(add_leg(file, form, "AAPL", g, provider)) =>
                        /\ IsNull(file'[Len(file')].entry_underlying_px)
                        /\ file'[Len(file')].is_open = TRUE
          /\ \A s \in Sessions :
               ClosingStep(s) =>
                   \A i \in DOMAIN file' :
                       file'[i].id = Val(editing[s].editing_leg_id) =>
                           /\ file'[i].is_open = FALSE
                           /\ ~IsNull(file'[i].exit_date)
                           /\ file'[i].asset_type = Some("Option") =>
                                  file'[i].exit_underlying_px \in LookupResults]_vars

\* a Stock leg added while the lookup failed, and an Option leg closed while
\* it failed
C17_Witness ==
    \E i, j \in DOMAIN file :
        /\ file[i].asset_type = Some("Stock")
        /\ IsNull(file[i].entry_underlying_px)
        /\ file[j].asset_type = Some("Option")
        /\ file[j].is_open = FALSE
        /\ IsNull(file[j].exit_underlying_px)

(***************************************************************************)
(* C18: the data file only ever becomes the whole copy one handler saves;  *)
(* that copy is the set the handler loaded plus its own change, whatever   *)
(* another session wrote in between: an add saves the loaded rows followed *)
(* by its new row, a close saves the loaded rows with the leg it edits     *)
(* changed.                                                                *)
(***************************************************************************)
WritingStep(s) == ~IsNull(pending[s]) /\ IsNull(pending'[s])

C18_LastWriterWins ==
    [][/\ file' # file => \E s \in Sessions : WritingStep(s)
       /\ \A s \in Sessions :
            WritingStep(s) =>
                LET held == Val(pending[s])
                IN /\ file' = save_data(held.df_all)
                   /\ held.handler = "add" =>
                        /\ Len(file') = Len(held.loaded) + 1
                        /\ SubSeq(file', 1, Len(held.loaded)) = held.loaded
                   /\ held.handler = "close" =>
                        /\ Len(file') = Len(held.loaded)
                        /\ \A i \in DOMAIN held.loaded :
                             held.loaded[i].id # Val(editing[s].editing_leg_id) =>
                                 file'[i] = held.loaded[i]]_vars

\* both sessions loaded the empty file, one has saved its leg, the other
\* still holds its copy
C18_Witness ==
    \E s \in Sessions :
        /\ ~IsNull(pending[s])
        /\ Val(pending[s]).handler = "add"
        /\ Val(pending[s]).loaded = <<>>
        /\ Len(file) = 1

(***************************************************************************)
(* C20: in the result of compute_portfolio_summary, for every year the     *)
(* by-(year, category) rows add up to the by-year row in Total PnL, Trade  *)
(* Groups, Winning Groups and Total Legs, and the by-year rows add up to   *)
(* the overall record.                                                     *)
(***************************************************************************)
AddingColumns == {"TotalPnL", "TradeGroups", "WinningGroups", "TotalLegs"}

RECURSIVE SumColumn(_, _)
SumColumn(rows, c) ==
    IF rows = <<>> THEN 0 ELSE Head(rows)[c] + SumColumn(Tail(rows), c)

RowsOfYear(tbl, y) == SelectSeq(tbl, LAMBDA rw : rw.Year = y)

ByYearRowsAddUpToOverall(ret) ==
    DOMAIN ret.overall # {} =>
        \A c \in AddingColumns : SumColumn(ret.by_year_df, c) = ret.overall[c]

C20_CategoryRowsAddUpToYearRow ==
    portfolio_call.done =>
        LET ret == portfolio_call.ret
        IN /\ \A y \in YearsPresent : \A c \in AddingColumns :
                SumColumn(RowsOfYear(ret.by_cat_year_df, y), c)
                    = SumColumn(RowsOfYear(ret.by_year_df, y), c)
           /\ ByYearRowsAddUpToOverall(ret)

(***************************************************************************)
(* C21: in every data file reached by add-leg and save-and-close steps,    *)
(* the pnl of a closed leg is what calculate_pnl gives for the leg as it   *)
(* is stored, a value or none; and a step that changes a price, the        *)
(* quantity, the direction or the asset type of a closed leg leaves it     *)
(* with the pnl calculate_pnl gives for its new cells.                     *)
(***************************************************************************)
PnlInputs ==
    {"asset_type", "direction", "contracts_or_shares", "entry_underlying_px",
     "exit_underlying_px", "option_entry_price", "option_exit_price"}

C21_StoredPnlIsCalculatePnl ==
    /\ [](\A i \in DOMAIN file :
            file[i].is_open = FALSE => file[i].pnl = calculate_pnl(file[i]))
    /\ [][\A i \in DOMAIN file :
            (/\ file[i].is_open = FALSE
             /\ i \in DOMAIN file'
             /\ \E c \in PnlInputs : file'[i][c] # file[i][c]) =>
                file'[i].pnl = calculate_pnl(file'[i])]_vars

\* a Stock leg closed at 11000 with a note and closed again at 0, its pnl
\* following the new price, next to a closed leg whose pnl is not computable
C21_Witness ==
    \E i, j \in DOMAIN file :
        /\ file[i].is_open = FALSE
        /\ file[i].asset_type = Some("Stock")
        /\ file[i].comments = Some("closed early")
        /\ file[i].entry_underlying_px = Some(10000)
        /\ file[i].exit_underlying_px = Some(0)
        /\ file[i].pnl = Some(-10000)
        /\ file[j].is_open = FALSE
        /\ IsNull(file[j].pnl)

(***************************************************************************)
(* C22: an add-leg step in "New core trade" mode, or in "Existing trade    *)
(* group" mode with no group on offer, gives the new leg group_id 1 when   *)
(* the file holds no group_id and the largest group_id of the file plus 1  *)
(* otherwise, which is the group_id of no leg of the file; an add-leg step *)
(* with a group selected gives the new leg that group_id.  So every leg of *)
(* a category page has a group_id, and legs with the same group_id have    *)
(* the same category.  The rows of the single-page app, which have neither *)
(* a group_id nor a category, are in the file as well.                     *)
(***************************************************************************)
GroupIdsOf(d) == {Val(d[i].group_id) : i \in {j \in DOMAIN d : ~IsNull(d[j].group_id)}}

FreshGroupId(d) ==
    IF GroupIdsOf(d) = {} THEN 1
    ELSE (CHOOSE m \in GroupIdsOf(d) : \A g \in GroupIdsOf(d) : g <= m) + 1

C22_GroupIdAssignment ==
    /\ [](\A i, j \in DOMAIN file :
            /\ ~IsNull(file[i].category) => ~IsNull(file[i].group_id)
            /\ (~IsNull(file[i].group_id) /\ file[i].group_id = file[j].group_id) =>
                   file[i].category = file[j].category)
    /\ [][LegAdded =>
            \A form \in AddForms, provider \in ProviderOutcomes :
               \A g \in SelectableGroups(file, form.group_mode, form.category_name) :
                  file' = save_data(add_leg(file, form, "AAPL", g, provider)) =>
                      LET group_id == file'[Len(file')].group_id
                      IN /\ ~IsNull(group_id)
                         /\ (form.group_mode = "New core trade" \/ IsNull(g)) =>
                                /\ Val(group_id) = FreshGroupId(file)
                                /\ Val(group_id) \notin GroupIdsOf(file)
                         /\ (form.group_mode = "Existing trade group" /\ ~IsNull(g)) =>
                                group_id = g]_vars

\* a leg added for an existing group while the category had none, and a
\* second leg added to the group of the first
C22_Witness ==
    /\ Len(file) = 2
    /\ file[1].leg_role = Some("Hedge")
    /\ file[1].group_id = Some(1)
    /\ file[2].leg_role = Some("Hedge")
    /\ file[2].group_id = Some(1)
    /\ file[2].category = file[1].category

====
